---- MODULE Spec2Model ----
(***************************************************************************)
(* VideoCreator (src/video_creator.py): the timeline assembler             *)
(* create_video and the helpers it calls, as a state machine.  One run of  *)
(* create_video is followed step by step: the image loading loop, the      *)
(* normalisation and the opening of the cv2.VideoWriter, the per-scene     *)
(* loop (motion frames, then transition frames), release and return.       *)
(*                                                                         *)
(* Six specifications share the variables:                                 *)
(*   Spec          one call of create_video on a new VideoCreator;         *)
(*   SpecRerun     the same valid call made twice on one VideoCreator;     *)
(*   SpecHelpers   resize_to_match and apply_ken_burns called directly;    *)
(*   SpecPipeline  the story -> images -> video pipelines of src/main.py   *)
(*                 and src/full_pipeline.py around create_video;           *)
(*   SpecHistory   ProjectManager.add_to_history called again and again;   *)
(*   SpecWait      one call of ComfyUIGenerator.wait_for_completion.       *)
(* Each keeps the variables of the others at rest.                         *)
(***************************************************************************)
EXTENDS Integers, Sequences, FiniteSets, TLC

(* ------------------------------------------------------------------ *)
(* Bounds of the model                                                 *)
(* ------------------------------------------------------------------ *)
MaxImages == 2      \* longest image_paths list
MaxResize == 3      \* longest list handed to resize_to_match directly
MaxKenBurns == 4    \* largest num_frames handed to apply_ken_burns directly
MaxScenes == 3      \* most scenes in a story
MaxAdds == 52       \* most add_to_history calls in a row
MaxTimeout == 4     \* largest timeout (seconds) handed to wait_for_completion
MaxTransition == 4  \* largest num_frames handed to create_dynamic_transition directly
HistoryCap == 50    \* entries add_to_history keeps

(* ------------------------------------------------------------------ *)
(* Inputs                                                              *)
(* ------------------------------------------------------------------ *)
\* The files a path may name.  "missing.png" is absent from the disk and
\* "corrupt.png" does not decode; the other two decode to rasters of
\* different (height, width).
Files == {"a.png", "b.png", "missing.png", "corrupt.png"}

\* Durations are floats in the code; the model uses exact fractions
\* <<numerator, denominator>> (halves and quarters are exact in binary
\* floating point, so int(fps * duration) is the truncated exact product).
SceneDurations == {<<0, 1>>, <<3, 4>>, <<1, 1>>}
TransitionDurations == {<<-1, 2>>, <<0, 1>>, <<1, 1>>}
FpsInputs == {-1, 0, 2}

\* The style and transition names the code recognises, and the names the
\* caller may hand in (one unrecognised name each).
ColorStyles == {"warm", "cool", "vintage", "cyberpunk"}
TransitionTypes == {"crossfade", "wipe_left", "zoom_blur"}
StyleInputs == {"warm", "neon"}
TransitionInputs == TransitionTypes \cup {"rotate"}

PathLists == UNION {[1..n -> Files] : n \in 0..MaxImages}

VARIABLES
    pc,                   \* position inside create_video
    fps,                  \* self.fps
    transition_duration,  \* self.transition_duration
    transition_frames,    \* self.transition_frames
    image_paths, scene_duration, use_ken_burns, use_color_grade,
    color_style, transition_type,       \* arguments of create_video
    images,               \* the local list images
    video_writer,         \* the cv2.VideoWriter of the run
    written,              \* every video_writer.write call, in order: the frame
                          \* and the loop position it was written from
    scene_frames,         \* local scene_frames
    total_frames,         \* local total_frames
    i,                    \* index of the scene loop
    frames_list,          \* scene_frames_list / transition_frames being written
    pos,                  \* position of the inner write loop in frames_list
    segments,             \* the synthesizer calls made, in order
    result,               \* how the call ended: return value or exception
    call,                 \* a direct call of one helper: its name and arguments
    ret,                  \* what that call returned
    previous,             \* the write calls of the previous create_video run
                          \* on the same VideoCreator
    rerun,                \* whether the current run repeats the previous call
    entry,                \* the pipeline being run: "ui" is
                          \* main.generate_story_animation, "cli" is
                          \* AIStoryAnimator.create_story_animation
    stage,                \* position inside the pipeline
    num_scenes,           \* argument num_scenes
    story_data,           \* what llm.generate_story_scenes returned
    scene_idx,            \* scenes the image loop has gone through
    generated_images,     \* local list generated_images
    image_files,          \* local list image_files (main.py)
    project_status,       \* "status" in the project's metadata.json
    history,              \* project_manager.history
    emitted,              \* what the pipeline has yielded, returned or raised
    video_request,        \* the create_video call the pipeline made
    history_calls,        \* add_to_history calls made so far
    loaded_history,       \* what _load_history returned when the
                          \* ProjectManager was constructed
    wait_pc,              \* position inside wait_for_completion
    timeout,              \* argument timeout
    start_time,           \* local start_time
    now,                  \* the clock time.time() reads
    prompt_history,       \* what the last get_history(prompt_id) returned
    wait_result           \* how wait_for_completion ended

video_vars == <<pc, fps, transition_duration, transition_frames, image_paths,
                scene_duration, use_ken_burns, use_color_grade, color_style,
                transition_type, images, video_writer, written, scene_frames,
                total_frames, i, frames_list, pos, segments, result>>

\* The state create_video does not touch.
helper_vars == <<call, ret>>
rerun_vars == <<previous, rerun>>
pipeline_vars == <<entry, stage, num_scenes, story_data, scene_idx,
                   generated_images, image_files, project_status, history,
                   emitted, video_request, history_calls,
                   loaded_history>>
wait_vars == <<wait_pc, timeout, start_time, now, prompt_history, wait_result>>
others == <<helper_vars, rerun_vars, pipeline_vars, wait_vars>>

vars == <<video_vars, others>>

config == <<fps, transition_duration, transition_frames>>
args == <<image_paths, scene_duration, use_ken_burns, use_color_grade,
          color_style, transition_type>>

(* ------------------------------------------------------------------ *)
(* Python primitives                                                   *)
(* ------------------------------------------------------------------ *)
\* int(x) of the float x = num/den: truncation toward zero.
PyInt(num, den) ==
    IF num >= 0 THEN num \div den ELSE -((-num) \div den)

\* round(x) of the float x = num/den, den > 0: the nearest integer, a tie
\* going to the even neighbour.
PyRound(num, den) ==
    LET q == num \div den
        r == num - q * den
    IN IF 2 * r < den THEN q
       ELSE IF 2 * r > den THEN q + 1
       ELSE IF q % 2 = 0 THEN q ELSE q + 1

\* FrameCount computed with round() in place of int().
FrameCount_rounded(f, d) == PyRound(f * d[1], d[2])

\* int(fps * duration)
FrameCount(f, d) == PyInt(f * d[1], d[2])

\* number of iterations of range(n), length of [x] * n
RangeLen(n) == IF n > 0 THEN n ELSE 0

NoWriter == [created |-> FALSE]
NoResult == [kind |-> "running"]
Raise(exc, arg) == [kind |-> "raise", exc |-> exc, arg |-> arg]
Return(v) == [kind |-> "return", value |-> v]

OutputPath == "outputs/videos/story_animation.mp4"

\* No helper is being called directly; a call that has not returned yet.
NoCall == [fn |-> "none"]
NoReturn == [kind |-> "pending"]

(* ------------------------------------------------------------------ *)
(* Image loading, grading, normalisation                               *)
(* ------------------------------------------------------------------ *)
\* cv2.imread: None for a file that is missing or undecodable.
imread(path) ==
    CASE path = "a.png" -> [none |-> FALSE, src |-> path, shape |-> <<8, 10>>,
                            gains |-> "raw", vignette |-> FALSE, resized |-> FALSE]
      [] path = "b.png" -> [none |-> FALSE, src |-> path, shape |-> <<10, 8>>,
                            gains |-> "raw", vignette |-> FALSE, resized |-> FALSE]
      [] OTHER -> [none |-> TRUE]

\* load_image with the None check replaced by a blank placeholder raster.
load_image_placeholder(path) ==
    LET img == imread(path) IN
    IF img.none
    THEN [ok |-> TRUE, img |-> [none |-> FALSE, src |-> path, shape |-> <<1, 1>>,
                                gains |-> "raw", vignette |-> FALSE,
                                resized |-> FALSE]]
    ELSE [ok |-> TRUE, img |-> img]

load_image(path) ==
    LET img == imread(path) IN
    IF img.none
    THEN [ok |-> FALSE, exc |-> Raise("ValueError", path)]
    ELSE [ok |-> TRUE, img |-> img]

\* ---- one channel of one pixel through apply_cinematic_color_grade ----
\* Values are fractions <<num, den>> on the scale where 255 is full
\* intensity (img_float * 255); gains and the vignette are in hundredths.

\* 255 * np.power(v / 255, 1.2) in hundredths, for v = 0..255.
Power12 ==
    <<
          0,    33,    76,   123,   174,   228,   283,   341,
        400,   461,   523,   587,   651,   717,   784,   851,
        920,   989,  1059,  1130,  1202,  1275,  1348,  1422,
       1496,  1571,  1647,  1723,  1800,  1877,  1955,  2034,
       2113,  2192,  2272,  2353,  2434,  2515,  2597,  2679,
       2762,  2845,  2928,  3012,  3096,  3181,  3266,  3351,
       3437,  3523,  3610,  3696,  3784,  3871,  3959,  4047,
       4135,  4224,  4313,  4403,  4492,  4582,  4673,  4763,
       4854,  4945,  5037,  5128,  5220,  5313,  5405,  5498,
       5591,  5684,  5778,  5872,  5966,  6060,  6155,  6249,
       6345,  6440,  6535,  6631,  6727,  6823,  6920,  7016,
       7113,  7210,  7308,  7405,  7503,  7601,  7699,  7798,
       7896,  7995,  8094,  8193,  8293,  8392,  8492,  8592,
       8692,  8793,  8893,  8994,  9095,  9196,  9297,  9399,
       9501,  9603,  9705,  9807,  9909, 10012, 10115, 10218,
      10321, 10424, 10527, 10631, 10735, 10839, 10943, 11047,
      11152, 11256, 11361, 11466, 11571, 11677, 11782, 11888,
      11993, 12099, 12205, 12311, 12418, 12524, 12631, 12738,
      12845, 12952, 13059, 13167, 13274, 13382, 13490, 13598,
      13706, 13814, 13922, 14031, 14140, 14249, 14358, 14467,
      14576, 14685, 14795, 14904, 15014, 15124, 15234, 15344,
      15455, 15565, 15676, 15787, 15897, 16008, 16119, 16231,
      16342, 16454, 16565, 16677, 16789, 16901, 17013, 17125,
      17237, 17350, 17463, 17575, 17688, 17801, 17914, 18027,
      18141, 18254, 18368, 18481, 18595, 18709, 18823, 18937,
      19051, 19166, 19280, 19395, 19510, 19624, 19739, 19854,
      19970, 20085, 20200, 20316, 20431, 20547, 20663, 20779,
      20895, 21011, 21127, 21243, 21360, 21476, 21593, 21710,
      21827, 21944, 22061, 22178, 22295, 22413, 22530, 22648,
      22766, 22883, 23001, 23119, 23237, 23356, 23474, 23592,
      23711, 23829, 23948, 24067, 24186, 24305, 24424, 24543,
      24662, 24782, 24901, 25021, 25140, 25260, 25380, 25500
    >>

\* The value after the style's tone step: vintage's img_float * 0.8 + 0.2,
\* cyberpunk's np.power(img_float, 1.2); the other styles have none.
grade_tone(v, style) ==
    CASE style = "vintage" -> <<80 * v + 20 * 255, 100>>
      [] style = "cyberpunk" -> <<Power12[v + 1], 100>>
      [] OTHER -> <<v * 100, 100>>

\* The gain of channel c (0 blue, 1 green, 2 red), in hundredths; an
\* unrecognised style has none.
channel_gain(style, c) ==
    CASE style = "warm" -> <<90, 105, 110>>[c + 1]
      [] style = "cool" -> <<120, 100, 90>>[c + 1]
      [] style = "vintage" -> <<100, 95, 100>>[c + 1]
      [] style = "cyberpunk" -> <<130, 100, 120>>[c + 1]
      [] OTHER -> 100

\* np.clip left out: the value goes to astype(np.uint8) as it is.
np_clip_missing(x) == x

\* np.clip(img_float, 0, 1)
np_clip(x) ==
    IF x[1] < 0 THEN <<0, 1>>
    ELSE IF x[1] > 255 * x[2] THEN <<255, 1>>
    ELSE x

\* (img_float * 255).astype(np.uint8): truncation, modulo 256 outside the
\* range of uint8.
astype_uint8(x) == PyInt(x[1], x[2]) % 256

\* One channel value v of a pixel whose vignette factor is vignette / 100;
\* rounding is the float32 rounding error of the products, in units of the
\* last place of the fraction.
grade_channel(v, style, c, vignette, rounding) ==
    LET tone == grade_tone(v, style)
        graded == <<tone[1] * channel_gain(style, c) * vignette + rounding,
                    tone[2] * 100 * 100>>
    IN [graded |-> graded, out |-> astype_uint8(np_clip(graded))]

\* The if/elif chain over style has no else: an unrecognised style applies no
\* gains, and the vignette is applied whatever the style.
apply_cinematic_color_grade(img, style) ==
    [img EXCEPT !.gains = IF style \in ColorStyles THEN style ELSE "raw",
                !.vignette = TRUE]

\* target_size as the caller passes it: None, or the tuple (width, height).
NoneSize == [none |-> TRUE]
Size(width, height) == [none |-> FALSE, width |-> width, height |-> height]

\* cv2.resize(img, (target_width, target_height)): the result has
\* shape (target_height, target_width).
cv2_resize(img, target_width, target_height) ==
    [img EXCEPT !.shape = <<target_height, target_width>>, !.resized = TRUE]

\* resize_to_match unpacking target_size as (height, width).
resize_to_match_swapped(imgs, target_size) ==
    IF imgs = <<>> THEN imgs
    ELSE LET target_height == IF target_size.none THEN imgs[1].shape[1]
                              ELSE target_size.width
             target_width == IF target_size.none THEN imgs[1].shape[2]
                             ELSE target_size.height
         IN [k \in 1..Len(imgs) |->
               IF imgs[k].shape # <<target_height, target_width>>
               THEN cv2_resize(imgs[k], target_width, target_height)
               ELSE imgs[k]]

\* resize_to_match leaving every image as it is.
resize_to_match_identity(imgs, target_size) == imgs

\* Lines 37-58.  shape[:2] is (height, width); target_size is (width, height).
resize_to_match(imgs, target_size) ==
    IF imgs = <<>> THEN imgs
    ELSE LET target_height == IF target_size.none THEN imgs[1].shape[1]
                              ELSE target_size.height
             target_width == IF target_size.none THEN imgs[1].shape[2]
                             ELSE target_size.width
         IN [k \in 1..Len(imgs) |->
               IF imgs[k].shape # <<target_height, target_width>>
               THEN cv2_resize(imgs[k], target_width, target_height)
               ELSE imgs[k]]

\* first_shape guarded with a default size instead of indexing images[0].
first_shape_default(imgs) ==
    IF imgs = <<>>
    THEN [ok |-> TRUE, shape |-> <<0, 0>>]
    ELSE [ok |-> TRUE, shape |-> imgs[1].shape]

\* images[0].shape[:2] : IndexError on an empty list.
first_shape(imgs) ==
    IF imgs = <<>>
    THEN [ok |-> FALSE, exc |-> Raise("IndexError", "list index out of range")]
    ELSE [ok |-> TRUE, shape |-> imgs[1].shape]

(* ------------------------------------------------------------------ *)
(* Frame synthesis                                                     *)
(* ------------------------------------------------------------------ *)
kb_directions == {<<"in", "left">>, <<"in", "right">>, <<"out", "None">>,
                  <<"in", "up">>, <<"in", "down">>}

\* zoom_amount=1.15 as create_video passes it, and the default 1.2, as exact
\* fractions.
SceneZoom == <<115, 100>>
DefaultZoom == <<120, 100>>

\* t = i / (num_frames - 1) if num_frames > 1 else 0, as a fraction
ken_burns_t(idx, num_frames) ==
    IF num_frames > 1 THEN <<idx, num_frames - 1>> ELSE <<0, 1>>

\* t_smooth = t * t * (3 - 2 * t)
ease(t) == <<t[1] * t[1] * (3 * t[2] - 2 * t[1]), t[2] * t[2] * t[2]>>

\* ken_burns_scale with the two zoom directions exchanged.
ken_burns_scale_reversed(zoom_direction, za, ts) ==
    IF zoom_direction = "in"
    THEN <<za[1] * ts[2] - (za[1] - za[2]) * ts[1], za[2] * ts[2]>>
    ELSE <<za[2] * ts[2] + (za[1] - za[2]) * ts[1], za[2] * ts[2]>>

\* scale = 1.0 + (zoom_amount - 1.0) * t_smooth          for 'in'
\* scale = zoom_amount - (zoom_amount - 1.0) * t_smooth  otherwise
ken_burns_scale(zoom_direction, za, ts) ==
    IF zoom_direction = "in"
    THEN <<za[2] * ts[2] + (za[1] - za[2]) * ts[1], za[2] * ts[2]>>
    ELSE <<za[1] * ts[2] - (za[1] - za[2]) * ts[1], za[2] * ts[2]>>

\* Number of elements of a[start:stop] for an axis of length len.
PySliceLen(start, stop, len) ==
    LET clip(x) == IF x < 0 THEN (IF x + len < 0 THEN 0 ELSE x + len)
                   ELSE (IF x > len THEN len ELSE x)
    IN IF clip(stop) > clip(start) THEN clip(stop) - clip(start) ELSE 0

\* One iteration of the loop of apply_ken_burns (lines 75-119): the enlarged
\* size, the pan offsets, the crop and the final size check.
ken_burns_frame(img, idx, num_frames, zoom_direction, zoom_amount, pan_direction) ==
    LET height == img.shape[1]
        width == img.shape[2]
        t_smooth == ease(ken_burns_t(idx, num_frames))
        scale == ken_burns_scale(zoom_direction, zoom_amount, t_smooth)
        new_width == PyInt(width * scale[1], scale[2])
        new_height == PyInt(height * scale[1], scale[2])
        rest == <<t_smooth[2] - t_smooth[1], t_smooth[2]>>      \* 1 - t_smooth
        pan_x == CASE pan_direction = "left" ->
                        PyInt((new_width - width) * t_smooth[1], t_smooth[2])
                   [] pan_direction = "right" ->
                        PyInt((new_width - width) * rest[1], rest[2])
                   [] pan_direction \in {"up", "down"} -> 0
                   [] OTHER -> (new_width - width) \div 2
        pan_y == CASE pan_direction = "up" ->
                        PyInt((new_height - height) * t_smooth[1], t_smooth[2])
                   [] pan_direction = "down" ->
                        PyInt((new_height - height) * rest[1], rest[2])
                   [] pan_direction \in {"left", "right"} -> 0
                   [] OTHER -> (new_height - height) \div 2
        cropped == <<PySliceLen(pan_y, pan_y + height, new_height),
                     PySliceLen(pan_x, pan_x + width, new_width)>>
    IN [kind |-> "ken_burns", img |-> img, i |-> idx, n |-> num_frames,
        zoom |-> zoom_direction, pan |-> pan_direction, scale |-> scale,
        window |-> [new_shape |-> <<new_height, new_width>>,
                    pan_x |-> pan_x, pan_y |-> pan_y, shape |-> cropped],
        refit |-> cropped # <<height, width>>,
        shape |-> IF cropped # <<height, width>> THEN <<height, width>>
                  ELSE cropped]

\* apply_ken_burns looping over range(1, num_frames): frame 0 is skipped.
apply_ken_burns_skip_first(img, num_frames, zoom_direction, zoom_amount, pan_direction) ==
    [k \in 1..RangeLen(num_frames - 1) |->
        ken_burns_frame(img, k, num_frames, zoom_direction, zoom_amount,
                        pan_direction)]

\* apply_ken_burns producing one frame when num_frames is 0 or negative.
apply_ken_burns_at_least_one(img, num_frames, zoom_direction, zoom_amount, pan_direction) ==
    [k \in 1..(IF num_frames > 1 THEN num_frames ELSE 1) |->
        ken_burns_frame(img, k - 1, num_frames, zoom_direction, zoom_amount,
                        pan_direction)]

\* for i in range(num_frames): ... frames.append(cropped)
apply_ken_burns(img, num_frames, zoom_direction, zoom_amount, pan_direction) ==
    [k \in 1..RangeLen(num_frames) |->
        ken_burns_frame(img, k - 1, num_frames, zoom_direction, zoom_amount,
                        pan_direction)]

\* [img] * (scene_frames - 1): one copy short.
static_frames_one_less(img, num_frames) ==
    [k \in 1..RangeLen(num_frames - 1) |->
        [kind |-> "static", img |-> img, shape |-> img.shape]]

\* [img] * scene_frames
static_frames(img, num_frames) ==
    [k \in 1..RangeLen(num_frames) |->
        [kind |-> "static", img |-> img, shape |-> img.shape]]

\* t = i / (num_frames - 1) if num_frames > 1 else 1, as a fraction
transition_t(idx, num_frames) ==
    IF num_frames > 1 THEN <<idx, num_frames - 1>> ELSE <<1, 1>>

\* wipe_x = int(width * t) with the eased time in place of t.
wipe_x_eased(width, t) == PyInt(width * ease(t)[1], ease(t)[2])

\* wipe_x = int(width * t)   (line 227: t itself, not the eased time)
wipe_x(width, t) == PyInt(width * t[1], t[2])

\* blur_amount left as computed, an even value not made odd.
blur_amount_as_computed(t) ==
    LET distance == IF 2 * t[1] >= t[2] THEN 2 * t[1] - t[2]
                    ELSE t[2] - 2 * t[1]
    IN PyInt(15 * (t[2] - distance), t[2])

\* blur_amount = int(15 * (1 - abs(t - 0.5) * 2)), plus one if positive and
\* even   (lines 237-239)
blur_amount(t) ==
    LET distance == IF 2 * t[1] >= t[2] THEN 2 * t[1] - t[2]   \* abs(t - 0.5) * 2
                    ELSE t[2] - 2 * t[1]
        computed == PyInt(15 * (t[2] - distance), t[2])
    IN IF computed > 0 /\ computed % 2 = 0 THEN computed + 1 ELSE computed

\* alpha of a crossfade taken as t = i / num_frames: it never reaches 1.
crossfade_alpha_open(idx, num_frames) ==
    ease(IF num_frames > 0 THEN <<idx, num_frames>> ELSE <<1, 1>>)

\* alpha = t * t * (3 - 2 * t)   (lines 218-219)
crossfade_alpha(idx, num_frames) == ease(transition_t(idx, num_frames))

\* One frame of create_dynamic_transition (lines 216-248) for a recognised
\* type: the weights handed to cv2.addWeighted, the columns wiped, the
\* Gaussian kernel size.
transition_frame(img1, img2, idx, num_frames, ttype) ==
    LET t == transition_t(idx, num_frames)
        base == [kind |-> ttype, a |-> img1, b |-> img2, i |-> idx,
                 n |-> num_frames, shape |-> img1.shape]
    IN CASE ttype = "crossfade" ->
              base @@
              [alpha |-> crossfade_alpha(idx, num_frames)]
         [] ttype = "wipe_left" ->
              base @@
              [wipe_x |-> wipe_x(img1.shape[2], t)]
         [] OTHER ->
              base @@
              [blur_amount |-> blur_amount(t), alpha |-> ease(t)]

\* create_dynamic_transition blending from img2 to img1.
create_dynamic_transition_swapped(img1, img2, num_frames, ttype) ==
    IF ttype \in TransitionTypes
    THEN [k \in 1..RangeLen(num_frames) |->
            transition_frame(img2, img1, k - 1, num_frames, ttype)]
    ELSE <<>>

\* create_dynamic_transition looping over range(num_frames - 1).
create_dynamic_transition_one_less(img1, img2, num_frames, ttype) ==
    IF ttype \in TransitionTypes
    THEN [k \in 1..RangeLen(num_frames - 1) |->
            transition_frame(img1, img2, k - 1, num_frames, ttype)]
    ELSE <<>>

\* An unrecognised transition_type matches no branch: frames stays [].
create_dynamic_transition(img1, img2, num_frames, ttype) ==
    IF ttype \in TransitionTypes
    THEN [k \in 1..RangeLen(num_frames) |->
            transition_frame(img1, img2, k - 1, num_frames, ttype)]
    ELSE <<>>

\* the guard written as i <= len(images) - 1
transition_due_inclusive(idx, n) == idx <= n - 1

\* if i < len(images) - 1
transition_due(idx, n) == idx < n - 1

(* ------------------------------------------------------------------ *)
(* The parts of the state a specification leaves at rest               *)
(* ------------------------------------------------------------------ *)
HelpersIdle == call = NoCall /\ ret = NoReturn
RerunIdle == previous = <<>> /\ rerun = FALSE

NoStory == [none |-> TRUE]
NoRequest == [made |-> FALSE, image_paths |-> <<>>, outcome |-> "none"]
PipelineIdle ==
    /\ entry = "none"
    /\ stage = "idle"
    /\ num_scenes = 0
    /\ story_data = NoStory
    /\ scene_idx = 0
    /\ generated_images = <<>>
    /\ image_files = <<>>
    /\ project_status = "none"
    /\ history = <<>>
    /\ emitted = <<>>
    /\ video_request = NoRequest
    /\ history_calls = 0
    /\ loaded_history = <<>>

\* wait_for_completion is not running.
NoHistory == [known |-> FALSE]
WaitIdle ==
    /\ wait_pc = "idle"
    /\ timeout = 0
    /\ start_time = 0
    /\ now = 0
    /\ prompt_history = NoHistory
    /\ wait_result = NoResult

(* ------------------------------------------------------------------ *)
(* Initial state: a VideoCreator has been constructed                  *)
(* ------------------------------------------------------------------ *)
Init ==
    /\ fps \in FpsInputs
    /\ transition_duration \in TransitionDurations
    /\ transition_frames = FrameCount(fps, transition_duration)
    /\ pc = "idle"
    /\ image_paths = <<>>
    /\ scene_duration = <<0, 1>>
    /\ use_ken_burns = FALSE
    /\ use_color_grade = FALSE
    /\ color_style = "warm"
    /\ transition_type = "crossfade"
    /\ images = <<>>
    /\ video_writer = NoWriter
    /\ written = <<>>
    /\ scene_frames = 0
    /\ total_frames = 0
    /\ i = 0
    /\ frames_list = <<>>
    /\ pos = 0
    /\ segments = <<>>
    /\ result = NoResult
    /\ HelpersIdle
    /\ RerunIdle
    /\ PipelineIdle
    /\ WaitIdle

(* ------------------------------------------------------------------ *)
(* create_video, step by step                                          *)
(* ------------------------------------------------------------------ *)
\* The call: arguments bound, images = [].  color_style keeps its default
\* 'warm' when grading is switched off (it is not read then).
Call ==
    /\ pc = "idle"
    /\ image_paths' \in PathLists
    /\ scene_duration' \in SceneDurations
    /\ use_ken_burns' \in BOOLEAN
    /\ use_color_grade' \in BOOLEAN
    /\ color_style' \in (IF use_color_grade' THEN StyleInputs ELSE {"warm"})
    /\ transition_type' \in TransitionInputs
    /\ images' = <<>>
    /\ pc' = "load"
    /\ UNCHANGED others
    /\ UNCHANGED <<config, video_writer, written, scene_frames, total_frames,
                   i, frames_list, pos, segments, result>>

\* One iteration of the loading loop (lines 267-275).
LoadStep ==
    /\ pc = "load"
    /\ Len(images) < Len(image_paths)
    /\ LET r == load_image(image_paths[Len(images) + 1]) IN
       IF ~r.ok
       THEN /\ result' = r.exc
            /\ pc' = "raised"
            /\ UNCHANGED images
       ELSE /\ images' = Append(images,
                           IF use_color_grade
                           THEN apply_cinematic_color_grade(r.img, color_style)
                           ELSE r.img)
            /\ UNCHANGED <<pc, result>>
    /\ UNCHANGED others
    /\ UNCHANGED <<config, args, video_writer, written, scene_frames,
                   total_frames, i, frames_list, pos, segments>>

\* Lines 278-290: normalise, read the first image's size, construct the
\* VideoWriter (whether the backend could open the file is the host's
\* choice; the constructor does not raise), initialise the counters.
Prepare ==
    /\ pc = "load"
    /\ Len(images) = Len(image_paths)
    /\ LET resized == resize_to_match(images, NoneSize)
           fs == first_shape(resized) IN
       IF ~fs.ok
       THEN /\ images' = resized
            /\ result' = fs.exc
            /\ pc' = "raised"
            /\ UNCHANGED <<video_writer, scene_frames, total_frames, i>>
       ELSE /\ images' = resized
            /\ \E ok \in BOOLEAN :
                 video_writer' = [created |-> TRUE, opened |-> ok, fps |-> fps,
                                  size |-> <<fs.shape[2], fs.shape[1]>>,
                                  released |-> 0]
            /\ total_frames' = 0
            /\ scene_frames' = FrameCount(fps, scene_duration)
            /\ i' = 0
            /\ pc' = "scene"
            /\ UNCHANGED result
    /\ UNCHANGED others
    /\ UNCHANGED <<config, args, written, frames_list, pos, segments>>

\* Lines 303-317: the frames of scene i.
SceneSynth ==
    /\ pc = "scene"
    /\ i < Len(images)
    /\ LET img == images[i + 1] IN
       IF use_ken_burns
       THEN \E d \in kb_directions :
               frames_list' = apply_ken_burns(img, scene_frames, d[1],
                                             SceneZoom, d[2])
       ELSE frames_list' = static_frames(img, scene_frames)
    /\ segments' = Append(segments, [kind |-> "scene", scene |-> i])
    /\ pos' = 0
    /\ pc' = "write_scene"
    /\ UNCHANGED others
    /\ UNCHANGED <<config, args, images, video_writer, written, scene_frames,
                   total_frames, i, result>>

\* video_writer.write(frame); total_frames += 1   (lines 320-322, 331-333)
WriteFrame ==
    /\ pc \in {"write_scene", "write_transition"}
    /\ pos < Len(frames_list)
    /\ written' = Append(written,
                    [scene |-> i,
                     phase |-> IF pc = "write_scene" THEN "scene" ELSE "transition",
                     pos |-> pos, frame |-> frames_list[pos + 1]])
    /\ total_frames' = total_frames + 1
    /\ pos' = pos + 1
    /\ UNCHANGED others
    /\ UNCHANGED <<pc, config, args, images, video_writer, scene_frames, i,
                   frames_list, segments, result>>

\* Lines 325-329: after the scene's frames, the transition to the next scene.
TransitionSynth ==
    /\ pc = "write_scene"
    /\ pos = Len(frames_list)
    /\ transition_due(i, Len(images))
    /\ IF i + 2 > Len(images)
       THEN \* images[i + 1] past the end of the list
            /\ result' = Raise("IndexError", "list index out of range")
            /\ pc' = "raised"
            /\ UNCHANGED <<frames_list, pos, segments>>
       ELSE /\ frames_list' = create_dynamic_transition(
                                 images[i + 1], images[i + 2],
                                 transition_frames, transition_type)
            /\ segments' = Append(segments, [kind |-> "transition", scene |-> i])
            /\ pos' = 0
            /\ pc' = "write_transition"
            /\ UNCHANGED result
    /\ UNCHANGED others
    /\ UNCHANGED <<config, args, images, video_writer, written, scene_frames,
                   total_frames, i>>

\* End of one iteration of the scene loop.
NextScene ==
    /\ pos = Len(frames_list)
    /\ \/ pc = "write_transition"
       \/ pc = "write_scene" /\ ~transition_due(i, Len(images))
    /\ i' = i + 1
    /\ pc' = "scene"
    /\ UNCHANGED others
    /\ UNCHANGED <<config, args, images, video_writer, written, scene_frames,
                   total_frames, frames_list, pos, segments, result>>

\* An exception raised inside the scene loop by the frame synthesis (cv2.error
\* or MemoryError in cv2.resize / GaussianBlur / addWeighted, or while the
\* frame lists are accumulated).  Nothing catches it in create_video.
SynthesisFailure ==
    /\ \/ pc = "scene" /\ i < Len(images)
       \/ pc = "write_scene" /\ pos = Len(frames_list)
                             /\ transition_due(i, Len(images))
    /\ result' = Raise("cv2.error", "frame synthesis")
    /\ pc' = "raised"
    /\ UNCHANGED others
    /\ UNCHANGED <<config, args, images, video_writer, written, scene_frames,
                   total_frames, i, frames_list, pos, segments>>

\* video_writer.release()   (line 335)
Release ==
    /\ pc = "scene"
    /\ i >= Len(images)
    /\ video_writer' = [video_writer EXCEPT !.released = @ + 1]
    /\ pc' = "released"
    /\ UNCHANGED others
    /\ UNCHANGED <<config, args, images, written, scene_frames, total_frames,
                   i, frames_list, pos, segments, result>>

\* Lines 337-350: duration = total_frames / self.fps, then return output_path.
Finish ==
    /\ pc = "released"
    /\ IF fps = 0
       THEN /\ result' = Raise("ZeroDivisionError", "division by zero")
            /\ pc' = "raised"
       ELSE /\ result' = Return(OutputPath)
            /\ pc' = "done"
    /\ UNCHANGED others
    /\ UNCHANGED <<config, args, images, video_writer, written, scene_frames,
                   total_frames, i, frames_list, pos, segments>>

Next ==
    \/ Call
    \/ LoadStep
    \/ Prepare
    \/ SceneSynth
    \/ WriteFrame
    \/ TransitionSynth
    \/ NextScene
    \/ SynthesisFailure
    \/ Release
    \/ Finish

Spec == Init /\ [][Next]_vars

(* ------------------------------------------------------------------ *)
(* Vocabulary of the properties                                        *)
(* ------------------------------------------------------------------ *)
NumImages == Len(image_paths)
Unreadable(path) == imread(path).none
AllReadable == \A k \in 1..NumImages : ~Unreadable(image_paths[k])
BadIndexes == {k \in 1..NumImages : Unreadable(image_paths[k])}
FirstBad == CHOOSE k \in BadIndexes : \A j \in BadIndexes : k <= j

Positive(d) == d[1] > 0
Negative(d) == d[1] < 0

\* The configuration section 6 of the specification admits.
ValidNumbers ==
    /\ fps > 0
    /\ Positive(scene_duration)
    /\ ~Negative(transition_duration)
ValidStyle == use_color_grade => color_style \in ColorStyles
ValidTransition == transition_type \in TransitionTypes
ValidConfig == ValidNumbers /\ ValidStyle /\ ValidTransition

Called == pc # "idle"
Loadable == Called /\ NumImages >= 1 /\ AllReadable
ValidRun == Loadable /\ ValidConfig
Ended == pc \in {"done", "raised"}
AfterLoop == pc \in {"released", "done"}

\* duration = total_frames / self.fps   (line 337), as a fraction
duration == <<total_frames, fps>>

SceneLen == FrameCount(fps, scene_duration)
TransitionLen == FrameCount(fps, transition_duration)

(* ------------------------------------------------------------------ *)
(* C1                                                                  *)
(* ------------------------------------------------------------------ *)
\* C1: a valid run of create_video over N >= 1 images hands exactly
\* N * scene_frame_count + (N - 1) * transition_frame_count frames to the
\* sink (the counts being int(fps * duration) as the code computes them),
\* total_frames counts the same number, and the run is cut short only by a
\* failure of the frame synthesis itself.
C1_FrameCount ==
    ValidRun =>
        /\ AfterLoop =>
              /\ Len(written) = NumImages * SceneLen
                                  + (NumImages - 1) * TransitionLen
              /\ total_frames = Len(written)
        /\ pc = "raised" => result.exc = "cv2.error"

C1_Witness ==
    /\ pc = "done"
    /\ ValidRun
    /\ NumImages = 2
    /\ use_ken_burns
    /\ transition_type = "zoom_blur"
    /\ Len(written) = 6

(* ------------------------------------------------------------------ *)
(* C2                                                                  *)
(* ------------------------------------------------------------------ *)
\* Position of a written frame in the presentation order of a run whose
\* scenes have sl frames and whose transitions have tl frames.
Rank(e, sl, tl) ==
    e.scene * (sl + tl) + (IF e.phase = "transition" THEN sl ELSE 0) + e.pos

InOrder(p, sl, tl) ==
    LET e == written[p] IN
    /\ Rank(e, sl, tl) = p - 1
    /\ e.scene \in 0..(NumImages - 1)
    /\ IF e.phase = "scene"
       THEN /\ e.pos < sl
            /\ e.frame.kind \in {"ken_burns", "static"}
            /\ e.frame.img.src = image_paths[e.scene + 1]
            /\ e.frame.kind = "ken_burns" => e.frame.i = e.pos
       ELSE /\ e.pos < tl
            /\ e.scene < NumImages - 1
            /\ e.frame.kind = transition_type
            /\ e.frame.a.src = image_paths[e.scene + 1]
            /\ e.frame.b.src = image_paths[e.scene + 2]
            /\ e.frame.i = e.pos

\* C2: in a valid run the p-th frame handed to the sink is the p-th frame of
\* the presentation order (scene 0's motion frames by index, the frames of
\* transition 0 -> 1 by index, scene 1's motion frames, ...), each scene
\* built from the image path at its position in the input list, and when the
\* loop is over no frame of that order is missing.
C2_PresentationOrder ==
    ValidRun =>
        LET sl == SceneLen
            tl == TransitionLen IN
        /\ \A p \in 1..Len(written) : InOrder(p, sl, tl)
        /\ AfterLoop => Len(written) = NumImages * sl + (NumImages - 1) * tl

C2_Witness ==
    /\ pc = "done"
    /\ ValidRun
    /\ NumImages = 2
    /\ image_paths[1] # image_paths[2]
    /\ use_ken_burns
    /\ SceneLen = 2
    /\ TransitionLen = 2
    /\ written[3].phase = "transition"
    /\ written[5].phase = "scene"
    /\ written[5].scene = 1

(* ------------------------------------------------------------------ *)
(* C3                                                                  *)
(* ------------------------------------------------------------------ *)
\* C3: once the VideoWriter has been constructed, every way the call ends
\* (return or exception) has release called exactly once.  Stated for valid
\* runs, so that the only exceptions are failures of the frame synthesis.
C3_ReleasedOnEveryExit ==
    (ValidRun /\ video_writer.created /\ Ended) => video_writer.released = 1

(* ------------------------------------------------------------------ *)
(* C4                                                                  *)
(* ------------------------------------------------------------------ *)
\* C4: when some path of the list is unreadable, the call never gets past
\* the loading loop: no VideoWriter is constructed, no frame is synthesized
\* or written, and it ends by raising the load error (ValueError) that names
\* the unreadable path met first, wherever that path stands in the list.
C4_LoadErrorBeforeSink ==
    (Called /\ BadIndexes # {}) =>
        /\ ~video_writer.created
        /\ written = <<>>
        /\ segments = <<>>
        /\ pc \in {"load", "raised"}
        /\ pc = "load" => Len(images) < FirstBad
        /\ pc = "raised" =>
              /\ result = Raise("ValueError", image_paths[FirstBad])
              /\ Len(images) = FirstBad - 1

C4_Witness ==
    /\ pc = "raised"
    /\ NumImages = 2
    /\ ~Unreadable(image_paths[1])
    /\ Unreadable(image_paths[2])
    /\ Len(images) = 1
    /\ result.exc = "ValueError"
    /\ result.arg = image_paths[2]

(* ------------------------------------------------------------------ *)
(* C5                                                                  *)
(* ------------------------------------------------------------------ *)
\* C5: with use_color_grade set and a color_style outside the recognised
\* names (everything else about the call being valid), no image is ever
\* decoded or graded, the call never returns, and it ends only by raising a
\* configuration error.
C5_UnknownStyleRejected ==
    (Loadable /\ ValidNumbers /\ ValidTransition
              /\ use_color_grade /\ color_style \notin ColorStyles) =>
        /\ images = <<>>
        /\ pc # "done"
        /\ pc = "raised" => result.exc = "ConfigurationError"

(* ------------------------------------------------------------------ *)
(* C6                                                                  *)
(* ------------------------------------------------------------------ *)
\* C6: with a transition_type outside crossfade, wipe_left, zoom_blur
\* (everything else about the call being valid) no frame work begins (no
\* VideoWriter, no synthesizer call, no frame written) and the call never
\* returns an output path.
C6_UnknownTransitionRejected ==
    (Loadable /\ ValidNumbers /\ ValidStyle
              /\ transition_type \notin TransitionTypes) =>
        /\ ~video_writer.created
        /\ segments = <<>>
        /\ written = <<>>
        /\ pc # "done"

(* ------------------------------------------------------------------ *)
(* C7                                                                  *)
(* ------------------------------------------------------------------ *)
\* C7: with fps <= 0, scene_duration <= 0 or transition_duration < 0
\* (everything else about the call being valid) no VideoWriter is
\* constructed, no frame is synthesized or written, and the call does not
\* return an output path.
C7_BadNumbersRejected ==
    (Loadable /\ ValidStyle /\ ValidTransition /\ ~ValidNumbers) =>
        /\ ~video_writer.created
        /\ segments = <<>>
        /\ written = <<>>
        /\ pc # "done"

(* ------------------------------------------------------------------ *)
(* C8                                                                  *)
(* ------------------------------------------------------------------ *)
\* C8: called with an empty list of image paths, create_video constructs no
\* VideoWriter, writes no frame, never returns, and ends by raising (the
\* IndexError of images[0]).
C8_EmptyListFails ==
    (Called /\ image_paths = <<>>) =>
        /\ ~video_writer.created
        /\ written = <<>>
        /\ segments = <<>>
        /\ result.kind # "return"
        /\ pc \in {"load", "raised"}
        /\ pc = "raised" => result.exc = "IndexError"

C8_Witness ==
    /\ pc = "raised"
    /\ image_paths = <<>>
    /\ result.exc = "IndexError"
    /\ ~video_writer.created

(* ------------------------------------------------------------------ *)
(* C9                                                                  *)
(* ------------------------------------------------------------------ *)
\* The k-th synthesizer call of a run: scene 0, transition 0, scene 1, ...
ExpectedSegment(k) ==
    IF k % 2 = 1 THEN [kind |-> "scene", scene |-> (k - 1) \div 2]
                 ELSE [kind |-> "transition", scene |-> (k \div 2) - 1]

\* C9: over N >= 1 readable images the synthesizer calls made are, in order,
\* scene 0, transition 0 -> 1, scene 1, ..., scene N - 1: N scene segments,
\* N - 1 transitions, one between each adjacent pair and none after the last
\* scene; the loop ends only with all of them made; with one image of a valid
\* configuration no transition frame is written and the frame count is
\* scene_frame_count.
C9_Timeline ==
    Loadable =>
        /\ Len(segments) <= 2 * NumImages - 1
        /\ \A k \in 1..Len(segments) : segments[k] = ExpectedSegment(k)
        /\ AfterLoop => Len(segments) = 2 * NumImages - 1
        /\ pc = "raised" => result.exc \in {"cv2.error", "ZeroDivisionError"}
        /\ (ValidConfig /\ NumImages = 1 /\ AfterLoop) =>
              /\ Len(written) = SceneLen
              /\ \A p \in 1..Len(written) : written[p].phase = "scene"

C9_Witness ==
    /\ pc = "done"
    /\ ValidRun
    /\ NumImages = 2
    /\ Len(segments) = 3
    /\ segments[2] = [kind |-> "transition", scene |-> 0]
    /\ segments[3] = [kind |-> "scene", scene |-> 1]

(* ------------------------------------------------------------------ *)
(* C10                                                                 *)
(* ------------------------------------------------------------------ *)
\* C10: a run (of a valid call) whose VideoWriter could not be opened does
\* not return the output path.
C10_SinkFailureNotSuccess ==
    (ValidRun /\ video_writer.created /\ ~video_writer.opened) =>
        result.kind # "return"

(* ------------------------------------------------------------------ *)
(* The same call of create_video made twice on one VideoCreator        *)
(* ------------------------------------------------------------------ *)
\* The calls repeated: readable images, a valid configuration.
RerunPaths ==
    {[k \in 1..n |-> IF k % 2 = 1 THEN "a.png" ELSE "b.png"] : n \in 1..MaxImages}

RerunInit ==
    /\ Init
    /\ fps = 2
    /\ transition_duration = <<1, 1>>

CallValid ==
    /\ pc = "idle"
    /\ image_paths' \in RerunPaths
    /\ scene_duration' = <<1, 1>>
    /\ use_ken_burns' \in BOOLEAN
    /\ use_color_grade' = TRUE
    /\ color_style' = "warm"
    /\ transition_type' = "crossfade"
    /\ images' = <<>>
    /\ pc' = "load"
    /\ UNCHANGED others
    /\ UNCHANGED <<config, video_writer, written, scene_frames, total_frames,
                   i, frames_list, pos, segments, result>>

\* create_video called again with the arguments of the run that has just
\* returned: a new run with fresh locals and a new VideoWriter.
CallAgain ==
    /\ pc = "done"
    /\ ~rerun
    /\ previous' = written
    /\ rerun' = TRUE
    /\ images' = <<>>
    /\ video_writer' = NoWriter
    /\ written' = <<>>
    /\ scene_frames' = 0
    /\ total_frames' = 0
    /\ i' = 0
    /\ frames_list' = <<>>
    /\ pos' = 0
    /\ segments' = <<>>
    /\ result' = NoResult
    /\ pc' = "load"
    /\ UNCHANGED <<config, args, helper_vars, pipeline_vars, wait_vars>>

RerunNext ==
    \/ CallValid
    \/ CallAgain
    \/ LoadStep
    \/ Prepare
    \/ SceneSynth
    \/ WriteFrame
    \/ TransitionSynth
    \/ NextScene
    \/ SynthesisFailure
    \/ Release
    \/ Finish

SpecRerun == RerunInit /\ [][RerunNext]_vars

(* ------------------------------------------------------------------ *)
(* The helpers called directly                                         *)
(* ------------------------------------------------------------------ *)
\* No create_video run is under way while a helper is called on its own.
VideoParked ==
    /\ pc = "parked"
    /\ fps = 24
    /\ transition_duration = <<1, 1>>
    /\ transition_frames = FrameCount(24, <<1, 1>>)
    /\ image_paths = <<>>
    /\ scene_duration = <<0, 1>>
    /\ use_ken_burns = FALSE
    /\ use_color_grade = FALSE
    /\ color_style = "warm"
    /\ transition_type = "crossfade"
    /\ images = <<>>
    /\ video_writer = NoWriter
    /\ written = <<>>
    /\ scene_frames = 0
    /\ total_frames = 0
    /\ i = 0
    /\ frames_list = <<>>
    /\ pos = 0
    /\ segments = <<>>
    /\ result = NoResult

\* A decoded raster of the given (height, width); src tells the rasters of
\* one list apart.
Raster(src, shape) ==
    [none |-> FALSE, src |-> src, shape |-> shape, gains |-> "raw",
     vignette |-> FALSE, resized |-> FALSE]

\* Arguments of resize_to_match: lists of up to MaxResize rasters, and a
\* target_size that is None or a (width, height) pair.
ResizeShapes == {<<2, 3>>, <<3, 2>>, <<4, 4>>}
ResizeLists ==
    UNION {{[k \in 1..n |-> Raster(k, shapes[k])] : shapes \in [1..n -> ResizeShapes]}
           : n \in 0..MaxResize}
ResizeTargets == {NoneSize, Size(3, 2), Size(2, 3), Size(5, 4)}
ResizeCalls ==
    {[fn |-> "resize_to_match", images |-> imgs, target_size |-> ts] :
        imgs \in ResizeLists, ts \in ResizeTargets}

\* Arguments of apply_ken_burns: num_frames from -1 up, both zoom directions,
\* zoom_amount within the documented 1.0-1.5, every pan_direction.
KenBurnsShapes == {<<8, 10>>, <<12, 7>>}
ZoomAmounts == {<<100, 100>>, SceneZoom, DefaultZoom, <<150, 100>>}
PanDirections == {"None", "left", "right", "up", "down"}
KenBurnsCalls ==
    {[fn |-> "apply_ken_burns", img |-> Raster(1, shape), num_frames |-> n,
      zoom_direction |-> zd, zoom_amount |-> za, pan_direction |-> pd] :
        shape \in KenBurnsShapes, n \in -1..MaxKenBurns,
        zd \in {"in", "out"}, za \in ZoomAmounts, pd \in PanDirections}

\* Arguments of create_dynamic_transition: two rasters of one size,
\* num_frames from -1 up, the three recognised types and an unrecognised one.
TransitionCalls ==
    {[fn |-> "create_dynamic_transition", img1 |-> Raster(1, shape),
      img2 |-> Raster(2, shape), num_frames |-> n, transition_type |-> tt] :
        shape \in KenBurnsShapes, n \in -1..MaxTransition,
        tt \in TransitionInputs}

\* Arguments of the colour grade seen from one channel of one pixel: every
\* 8-bit value, every named style and an unrecognised one, the three
\* channels, and vignette factors from the corner (0.7) to the centre (1.0).
ChannelValues == 0..255
Vignettes == {70, 85, 100}
GradeCalls ==
    {[fn |-> "apply_cinematic_color_grade", value |-> v, style |-> st,
      channel |-> c, vignette |-> vg] :
        v \in ChannelValues, st \in ColorStyles \cup {"neon"}, c \in 0..2,
        vg \in Vignettes}

HelperCalls == ResizeCalls \cup KenBurnsCalls \cup TransitionCalls \cup GradeCalls

HelperInit ==
    /\ VideoParked
    /\ RerunIdle
    /\ PipelineIdle
    /\ WaitIdle
    /\ call \in HelperCalls
    /\ ret = NoReturn

ResizeCall ==
    /\ call.fn = "resize_to_match"
    /\ ret = NoReturn
    /\ ret' = Return(resize_to_match(call.images, call.target_size))
    /\ UNCHANGED <<call, video_vars, rerun_vars, pipeline_vars, wait_vars>>

KenBurnsCall ==
    /\ call.fn = "apply_ken_burns"
    /\ ret = NoReturn
    /\ ret' = Return(apply_ken_burns(call.img, call.num_frames,
                                     call.zoom_direction, call.zoom_amount,
                                     call.pan_direction))
    /\ UNCHANGED <<call, video_vars, rerun_vars, pipeline_vars, wait_vars>>

TransitionCall ==
    /\ call.fn = "create_dynamic_transition"
    /\ ret = NoReturn
    /\ ret' = Return(create_dynamic_transition(call.img1, call.img2,
                                               call.num_frames,
                                               call.transition_type))
    /\ UNCHANGED <<call, video_vars, rerun_vars, pipeline_vars, wait_vars>>

GradeCall ==
    /\ call.fn = "apply_cinematic_color_grade"
    /\ ret = NoReturn
    /\ \E rounding \in {-1, 0, 1} :
          ret' = Return(grade_channel(call.value, call.style, call.channel,
                                      call.vignette, rounding))
    /\ UNCHANGED <<call, video_vars, rerun_vars, pipeline_vars, wait_vars>>

HelperNext ==
    \/ ResizeCall
    \/ KenBurnsCall
    \/ TransitionCall
    \/ GradeCall

SpecHelpers == HelperInit /\ [][HelperNext]_vars

Returned(fn) == call.fn = fn /\ ret # NoReturn

\* C11: resize_to_match returns a list of the same length and order as its
\* input in which every image has the same (height, width): that of the first
\* image when target_size is None, otherwise (height, width) of the supplied
\* (width, height) pair.
C11_ResizeToMatch ==
    Returned("resize_to_match") =>
        LET target == IF call.target_size.none
                      THEN call.images[1].shape
                      ELSE <<call.target_size.height, call.target_size.width>>
        IN /\ Len(ret.value) = Len(call.images)
           /\ \A k \in 1..Len(call.images) :
                 /\ ret.value[k].src = call.images[k].src
                 /\ ret.value[k].shape = target

\* A list with an explicit non-square target where one image already has the
\* target size and another had to be resized.
C11_Witness ==
    /\ Returned("resize_to_match")
    /\ ~call.target_size.none
    /\ call.target_size.width # call.target_size.height
    /\ \E j, k \in 1..Len(ret.value) :
          /\ ret.value[j].resized
          /\ ~ret.value[k].resized

\* C12: every frame handed to the sink has the (width, height) the sink was
\* opened with: the frame's (height, width) is the first normalised image's,
\* for static, Ken Burns (every zoom direction, pan direction and frame
\* index) and transition frames alike.
C12_FrameSize ==
    written # <<>> =>
        /\ video_writer.size = <<images[1].shape[2], images[1].shape[1]>>
        /\ \A k \in 1..Len(written) :
              written[k].frame.shape =
                  <<video_writer.size[2], video_writer.size[1]>>

\* A Ken Burns frame of a resized image, cropped out of an enlarged raster at
\* a non-zero offset, has been written, and a transition frame as well.
C12_Witness ==
    /\ \E k \in 1..Len(written) :
          /\ written[k].frame.kind = "ken_burns"
          /\ written[k].frame.img.resized
          /\ written[k].frame.window.new_shape # written[k].frame.shape
          /\ written[k].frame.window.pan_x > 0
    /\ \E k \in 1..Len(written) : written[k].phase = "transition"

\* C13: for a positive integer fps and admissible durations the per-scene
\* frame count equals round(fps * scene_duration) and the per-transition
\* frame count equals round(fps * transition_duration), also when the
\* product is not an integer.
C13_RoundedCounts ==
    (ValidRun /\ video_writer.created) =>
        /\ scene_frames = PyRound(fps * scene_duration[1], scene_duration[2])
        /\ transition_frames =
              PyRound(fps * transition_duration[1], transition_duration[2])

\* The duration the claim C14 states, as a fraction:
\* scene_duration * N + transition_duration * (N - 1).
NominalDuration ==
    <<scene_duration[1] * NumImages * transition_duration[2]
        + transition_duration[1] * (NumImages - 1) * scene_duration[2],
      scene_duration[2] * transition_duration[2]>>

\* Comparison of fractions with positive denominators.
FracLeq(a, b) == a[1] * b[2] <= b[1] * a[2]
FracEq(a, b) == a[1] * b[2] = b[1] * a[2]
Whole(f, d) == (f * d[1]) % d[2] = 0

C15_Deterministic ==
    (rerun /\ pc = "done") => written = previous

(* ------------------------------------------------------------------ *)
(* The pipelines: story, images, video                                 *)
(* (src/main.py generate_story_animation, src/full_pipeline.py         *)
(* create_story_animation, src/image_generator_comfy.py                *)
(* generate_scene_images)                                              *)
(* ------------------------------------------------------------------ *)
Story(n) == [none |-> FALSE, scenes |-> n]

\* The file generate_image saved for scene k: "<project>_scene_<k>.png".
ScenePath(k) == <<"scene", k>>

\* [img['filepath'] for img in generated_images]
FilePaths(imgs) == [k \in 1..Len(imgs) |-> imgs[k].filepath]

Emit(how, kind, imgs, video) ==
    [how |-> how, kind |-> kind, images |-> imgs, video |-> video]

\* add_to_history cutting the list from the front: the newest entry goes.
add_to_history_drop_newest(hist, project_data) ==
    LET inserted == <<project_data>> \o hist IN
    IF Len(inserted) > HistoryCap THEN SubSeq(inserted, 2, HistoryCap + 1)
    ELSE inserted

\* ProjectManager.add_to_history: newest first, at most HistoryCap entries.
add_to_history(hist, project_data) ==
    LET inserted == <<project_data>> \o hist IN
    IF Len(inserted) > HistoryCap THEN SubSeq(inserted, 1, HistoryCap)
    ELSE inserted

\* "if not generated_images" letting an empty list through.
no_images_never(imgs) == FALSE

\* "if not generated_images": no image at all was generated.
no_images(imgs) == imgs = <<>>

PipelineInit ==
    /\ VideoParked
    /\ HelpersIdle
    /\ RerunIdle
    /\ PipelineIdle
    /\ WaitIdle

\* The pipeline is entered; main.py creates the project first.
StartPipeline ==
    /\ stage = "idle"
    /\ entry' \in {"ui", "cli"}
    /\ num_scenes' \in 1..MaxScenes
    /\ project_status' = IF entry' = "ui" THEN "created" ELSE "none"
    /\ stage' = "llm"
    /\ UNCHANGED <<story_data, scene_idx, generated_images, image_files,
                   history, emitted, video_request, history_calls,
                   loaded_history>>
    /\ UNCHANGED <<video_vars, helper_vars, rerun_vars, wait_vars>>

\* Stage 1: generate_story_scenes returns the parsed story or None.
StoryStage ==
    /\ stage = "llm"
    /\ \E sd \in {NoStory} \cup {Story(n) : n \in 0..MaxScenes} :
          /\ story_data' = sd
          /\ IF sd.none
             THEN /\ emitted' = Append(emitted,
                                   Emit("return",
                                        IF entry = "ui" THEN "error" ELSE "none",
                                        <<>>, FALSE))
                  /\ stage' = "ended"
                  /\ UNCHANGED project_status
             ELSE /\ project_status' = IF entry = "ui" THEN "story_generated"
                                       ELSE project_status
                  /\ stage' = "images"
                  /\ UNCHANGED emitted
    /\ scene_idx' = 0
    /\ generated_images' = <<>>
    /\ image_files' = <<>>
    /\ UNCHANGED <<entry, num_scenes, history, video_request, history_calls,
                   loaded_history>>
    /\ UNCHANGED <<video_vars, helper_vars, rerun_vars, wait_vars>>

\* Stage 2, one iteration of the loop over the prompts: generate_image
\* returns the saved file or None; a scene without a file is skipped.
ImageStep ==
    /\ stage = "images"
    /\ scene_idx < story_data.scenes
    /\ \E filepath \in {"None", "saved"} :
          LET idx == scene_idx + 1
              files == IF filepath = "saved" /\ entry = "ui"
                       THEN Append(image_files, ScenePath(idx))
                       ELSE image_files
          IN /\ generated_images' =
                   IF filepath = "saved"
                   THEN Append(generated_images,
                               [scene_number |-> idx, filepath |-> ScenePath(idx)])
                   ELSE generated_images
             /\ image_files' = files
             /\ emitted' = IF entry = "ui"
                           THEN Append(emitted, Emit("yield", "progress", files, FALSE))
                           ELSE emitted
             /\ scene_idx' = idx
    /\ UNCHANGED <<entry, stage, num_scenes, story_data, project_status,
                   history, video_request, history_calls,
                   loaded_history>>
    /\ UNCHANGED <<video_vars, helper_vars, rerun_vars, wait_vars>>

\* Stage 2, after the loop: the pipeline stops only if no image at all was
\* generated.
ImagesDone ==
    /\ stage = "images"
    /\ scene_idx >= story_data.scenes
    /\ IF no_images(generated_images)
       THEN /\ emitted' = Append(emitted,
                             Emit("return",
                                  IF entry = "ui" THEN "error" ELSE "none",
                                  <<>>, FALSE))
            /\ stage' = "ended"
            /\ UNCHANGED project_status
       ELSE /\ project_status' = IF entry = "ui" THEN "images_generated"
                                 ELSE project_status
            /\ stage' = "video"
            /\ UNCHANGED emitted
    /\ UNCHANGED <<entry, num_scenes, story_data, scene_idx, generated_images,
                   image_files, history, video_request, history_calls,
                   loaded_history>>
    /\ UNCHANGED <<video_vars, helper_vars, rerun_vars, wait_vars>>

\* Where main.py goes after the create_video call of its stage 3: on to the
\* final update of the project, or, from the except branch, to the end.
after_create_video_regardless(outcome) == "video_returned"
after_create_video(outcome) == IF outcome = "return" THEN "video_returned" ELSE "ended"

\* Stage 3: create_video is called with the files of the scenes that were
\* generated; it returns the path or raises.  full_pipeline.py returns its
\* result at once and lets the exception through; main.py goes on to the
\* project update or returns the error tuple.
VideoStage ==
    /\ stage = "video"
    /\ LET paths == IF entry = "ui" THEN image_files
                    ELSE FilePaths(generated_images)
       IN \E outcome \in {"return", "raise"} :
             /\ video_request' = [made |-> TRUE, image_paths |-> paths,
                                  outcome |-> outcome]
             /\ emitted' =
                   IF outcome = "raise"
                   THEN Append(emitted,
                               Emit(IF entry = "ui" THEN "return" ELSE "raise",
                                    "error", paths, FALSE))
                   ELSE IF entry = "ui" THEN emitted
                   ELSE Append(emitted, Emit("return", "result", paths, TRUE))
             /\ stage' = IF entry = "ui" THEN after_create_video(outcome)
                         ELSE "ended"
    /\ UNCHANGED <<entry, num_scenes, story_data, scene_idx, generated_images,
                   image_files, project_status, history, history_calls,
                   loaded_history>>
    /\ UNCHANGED <<video_vars, helper_vars, rerun_vars, wait_vars>>

\* main.py: update_project(project_id, {..., "status": "completed"}).
MarkCompleted ==
    /\ stage = "video_returned"
    /\ project_status' = "completed"
    /\ stage' = "completed"
    /\ UNCHANGED <<entry, num_scenes, story_data, scene_idx, generated_images,
                   image_files, history, emitted, video_request, history_calls,
                   loaded_history>>
    /\ UNCHANGED <<video_vars, helper_vars, rerun_vars, wait_vars>>

\* main.py: project_manager.add_to_history({...}).
RecordHistory ==
    /\ stage = "completed"
    /\ history' = add_to_history(history, [scenes_count |-> num_scenes])
    /\ history_calls' = history_calls + 1
    /\ stage' = "recorded"
    /\ UNCHANGED <<entry, num_scenes, story_data, scene_idx, generated_images,
                   image_files, project_status, emitted, video_request,
                   loaded_history>>
    /\ UNCHANGED <<video_vars, helper_vars, rerun_vars, wait_vars>>

\* main.py: the final return (image_files, video_path, status, json).
ReturnResult ==
    /\ stage = "recorded"
    /\ emitted' = Append(emitted, Emit("return", "result", image_files, TRUE))
    /\ stage' = "ended"
    /\ UNCHANGED <<entry, num_scenes, story_data, scene_idx, generated_images,
                   image_files, project_status, history, video_request,
                   history_calls, loaded_history>>
    /\ UNCHANGED <<video_vars, helper_vars, rerun_vars, wait_vars>>

PipelineNext ==
    \/ StartPipeline
    \/ StoryStage
    \/ ImageStep
    \/ ImagesDone
    \/ VideoStage
    \/ MarkCompleted
    \/ RecordHistory
    \/ ReturnResult

SpecPipeline == PipelineInit /\ [][PipelineNext]_vars

\* C16: the images a video is built from carry the scene indices 1..N,
\* contiguous and in narrative order: create_video is called only when every
\* scene of the story has its image; one failed scene means no video.
C16_ContiguousScenes ==
    video_request.made =>
        /\ Len(generated_images) = story_data.scenes
        /\ \A k \in 1..Len(generated_images) :
              generated_images[k].scene_number = k
        /\ video_request.image_paths =
              [k \in 1..story_data.scenes |-> ScenePath(k)]

\* The frame shows exactly the raster img: a static frame of it, or a Ken
\* Burns frame whose window is the whole of the unenlarged image.
ShowsImage(frame, img) ==
    \/ frame.kind = "static" /\ frame.img = img
    \/ /\ frame.kind = "ken_burns"
       /\ frame.img = img
       /\ frame.window.new_shape = img.shape
       /\ frame.window.pan_x = 0
       /\ frame.window.pan_y = 0

\* C17: the transition between scene i and scene i+1 is synthesized from the
\* last frame emitted for scene i and the first frame emitted for scene i+1:
\* with Ken Burns enabled, from scene i's final motion frame and scene i+1's
\* motion frame 0.
C17_TransitionInputs ==
    ValidRun =>
        \A p, q \in 1..Len(written) :
            (written[p].phase = "transition" /\ written[q].phase = "scene") =>
                /\ (written[q].scene = written[p].scene
                      /\ written[q].pos = SceneLen - 1)
                     => ShowsImage(written[q].frame, written[p].frame.a)
                /\ (written[q].scene = written[p].scene + 1
                      /\ written[q].pos = 0)
                     => ShowsImage(written[q].frame, written[p].frame.b)

\* The static image of scene k (1-based): image_paths[k] decoded, graded
\* when grading is on, and resized to the first image's size if it differs.
StaticImage(k) ==
    LET graded(path) == IF use_color_grade
                        THEN apply_cinematic_color_grade(imread(path), color_style)
                        ELSE imread(path)
        first == graded(image_paths[1])
        own == graded(image_paths[k])
    IN IF own.shape # first.shape
       THEN cv2_resize(own, first.shape[2], first.shape[1])
       ELSE own

SceneFramesOf(k) ==
    {p \in 1..Len(written) : written[p].phase = "scene" /\ written[p].scene = k}

\* C18: with use_ken_burns false every frame a scene writes is the scene's
\* static image (normalised, colour-graded), and a scene that is over has
\* written exactly scene_frame_count of them.
C18_StaticScenes ==
    (ValidRun /\ ~use_ken_burns) =>
        /\ \A p \in 1..Len(written) :
              written[p].phase = "scene" =>
                  /\ written[p].frame.kind = "static"
                  /\ written[p].frame.img = StaticImage(written[p].scene + 1)
        /\ AfterLoop =>
              \A k \in 0..(NumImages - 1) :
                  Cardinality(SceneFramesOf(k)) = SceneLen

\* A finished run without Ken Burns over two graded images of different
\* sizes, two frames a scene.
C18_Witness ==
    /\ ValidRun /\ ~use_ken_burns /\ pc = "done"
    /\ use_color_grade
    /\ NumImages = 2
    /\ images[2].resized
    /\ SceneLen = 2
    /\ Cardinality(SceneFramesOf(1)) = 2

\* C19 as stated: apply_ken_burns with num_frames <= 1 (1, 0 or negative)
\* returns exactly one frame with the source image's dimensions.
C19_SingleFrame ==
    (Returned("apply_ken_burns") /\ call.num_frames <= 1) =>
        /\ Len(ret.value) = 1
        /\ ret.value[1].shape = call.img.shape

\* C19, amended: apply_ken_burns with num_frames = 1 returns exactly one
\* frame, computed at t = 0, with the source image's dimensions; with
\* num_frames 0 or negative it returns no frame; in neither case is there a
\* division by zero.
C19_EdgeCounts ==
    (Returned("apply_ken_burns") /\ call.num_frames <= 1) =>
        /\ Len(ret.value) = (IF call.num_frames = 1 THEN 1 ELSE 0)
        /\ \A k \in 1..Len(ret.value) :
              /\ ret.value[k].shape = call.img.shape
              /\ ken_burns_t(ret.value[k].i, call.num_frames) = <<0, 1>>
              /\ ret.value[k].scale[2] # 0

\* num_frames = 1 zooming out: the one frame is cut out of the image
\* enlarged by zoom_amount and has the source size.
C19_Witness ==
    /\ Returned("apply_ken_burns")
    /\ call.num_frames = 1
    /\ call.zoom_direction = "out"
    /\ Len(ret.value) = 1
    /\ ret.value[1].window.new_shape # call.img.shape
    /\ ret.value[1].shape = call.img.shape

\* C20: for num_frames > 1 the first frame's scale is 1.0 and the last
\* frame's is zoom_amount when zooming in, the reverse when zooming out; from
\* frame to frame the scale never moves backwards, and it stays within
\* [1.0, zoom_amount].
C20_ScaleRange ==
    (Returned("apply_ken_burns") /\ call.num_frames > 1) =>
        LET n == Len(ret.value)
            scale(k) == ret.value[k].scale
            one == <<1, 1>>
            za == call.zoom_amount
        IN /\ n = call.num_frames
           /\ \A k \in 1..n : FracLeq(one, scale(k)) /\ FracLeq(scale(k), za)
           /\ IF call.zoom_direction = "in"
              THEN /\ FracEq(scale(1), one)
                   /\ FracEq(scale(n), za)
                   /\ \A k \in 1..(n - 1) : FracLeq(scale(k), scale(k + 1))
              ELSE /\ FracEq(scale(1), za)
                   /\ FracEq(scale(n), one)
                   /\ \A k \in 1..(n - 1) : FracLeq(scale(k + 1), scale(k))

\* A zoom out over at least three frames whose scale strictly falls at
\* every step.
C20_Witness ==
    /\ Returned("apply_ken_burns")
    /\ call.num_frames >= 3
    /\ call.zoom_direction = "out"
    /\ call.zoom_amount = DefaultZoom
    /\ \A k \in 1..(Len(ret.value) - 1) :
          ~FracLeq(ret.value[k].scale, ret.value[k + 1].scale)

(* ------------------------------------------------------------------ *)
(* C21 - C24: create_dynamic_transition                                *)
(* ------------------------------------------------------------------ *)
TransitionReturned(ttype) ==
    /\ Returned("create_dynamic_transition")
    /\ call.transition_type = ttype

\* C21: create_dynamic_transition with num_frames = 1 returns exactly one
\* frame for each of crossfade, wipe_left and zoom_blur, computed at t = 1
\* with no division by zero: the frame shows img2 alone.
C21_SingleTransitionFrame ==
    (Returned("create_dynamic_transition") /\ call.num_frames = 1
        /\ call.transition_type \in TransitionTypes) =>
        /\ Len(ret.value) = 1
        /\ transition_t(ret.value[1].i, call.num_frames) = <<1, 1>>
        /\ call.transition_type = "crossfade" => ret.value[1].alpha = <<1, 1>>
        /\ call.transition_type = "wipe_left" =>
              ret.value[1].wipe_x = call.img1.shape[2]
        /\ call.transition_type = "zoom_blur" =>
              /\ ret.value[1].blur_amount = 0
              /\ ret.value[1].alpha = <<1, 1>>

C21_Witness ==
    /\ TransitionReturned("zoom_blur")
    /\ call.num_frames = 1
    /\ Len(ret.value) = 1
    /\ ret.value[1].blur_amount = 0

Zero == <<0, 1>>
One == <<1, 1>>
FracLess(a, b) == a[1] * b[2] < b[1] * a[2]

\* C22 as stated: in a crossfade of N frames alpha is 0 on the first frame,
\* 1 on the last frame, strictly between 0 and 1 on every frame in between,
\* and non-decreasing in the frame index.
C22_CrossfadeAlpha ==
    (TransitionReturned("crossfade") /\ call.num_frames >= 1) =>
        LET n == Len(ret.value)
            alpha(k) == ret.value[k].alpha
        IN /\ n = call.num_frames
           /\ FracEq(alpha(1), Zero)
           /\ FracEq(alpha(n), One)
           /\ \A k \in 2..(n - 1) :
                 FracLess(Zero, alpha(k)) /\ FracLess(alpha(k), One)
           /\ \A k \in 1..(n - 1) : FracLeq(alpha(k), alpha(k + 1))

\* C22, amended: in a crossfade of N >= 2 frames alpha is 0 on the first
\* frame, 1 on the last, strictly between on every frame in between and
\* non-decreasing; in a crossfade of one frame alpha is 1 (the frame is
\* img2).
C22_CrossfadeAlphaFromTwo ==
    (TransitionReturned("crossfade") /\ call.num_frames >= 1) =>
        LET n == Len(ret.value)
            alpha(k) == ret.value[k].alpha
        IN /\ n = call.num_frames
           /\ FracEq(alpha(n), One)
           /\ n >= 2 => FracEq(alpha(1), Zero)
           /\ \A k \in 2..(n - 1) :
                 FracLess(Zero, alpha(k)) /\ FracLess(alpha(k), One)
           /\ \A k \in 1..(n - 1) : FracLeq(alpha(k), alpha(k + 1))

\* A crossfade of at least four frames: two frames in between, the later
\* with the larger alpha.
C22_Witness ==
    /\ TransitionReturned("crossfade")
    /\ call.num_frames >= 4
    /\ FracLess(Zero, ret.value[2].alpha)
    /\ FracLess(ret.value[2].alpha, ret.value[3].alpha)
    /\ FracLess(ret.value[3].alpha, One)

\* C23: in a wipe_left of more than one frame the number of left columns
\* taken from img2 at frame i is the eased fraction t' = t^2 (3 - 2t) of the
\* width, t = i / (num_frames - 1): 0 on the first frame, the full width on
\* the last, non-decreasing in i.
C23_WipeEased ==
    (TransitionReturned("wipe_left") /\ call.num_frames > 1) =>
        LET n == Len(ret.value)
            width == call.img1.shape[2]
        IN /\ \A k \in 1..n :
                 ret.value[k].wipe_x =
                     wipe_x_eased(width, transition_t(k - 1, call.num_frames))
           /\ ret.value[1].wipe_x = 0
           /\ ret.value[n].wipe_x = width
           /\ \A k \in 1..(n - 1) : ret.value[k].wipe_x <= ret.value[k + 1].wipe_x

\* abs(2i - (n - 1)): how far frame i is from the temporal midpoint.
FromMidpoint(idx, n) ==
    IF 2 * idx >= n - 1 THEN 2 * idx - (n - 1) ELSE (n - 1) - 2 * idx

\* C24: in a zoom_blur of more than one frame the Gaussian kernel size of
\* every frame is 0 or a positive odd number; it is 0 on the first and on
\* the last frame, and a frame nearer the temporal midpoint never has a
\* smaller kernel than one farther from it.
C24_BlurKernel ==
    (TransitionReturned("zoom_blur") /\ call.num_frames > 1) =>
        LET n == Len(ret.value)
            kernel(k) == ret.value[k].blur_amount
        IN /\ n = call.num_frames
           /\ \A k \in 1..n :
                 kernel(k) = 0 \/ (kernel(k) > 0 /\ kernel(k) % 2 = 1)
           /\ kernel(1) = 0
           /\ kernel(n) = 0
           /\ \A j, k \in 1..n :
                 FromMidpoint(k - 1, n) < FromMidpoint(j - 1, n)
                     => kernel(k) >= kernel(j)

\* A zoom_blur with frames on both sides of the midpoint that are blurred
\* with an odd kernel made from an even amount.
C24_Witness ==
    /\ TransitionReturned("zoom_blur")
    /\ call.num_frames = 4
    /\ ret.value[2].blur_amount = blur_amount_as_computed(<<1, 3>>) + 1
    /\ ret.value[3].blur_amount = ret.value[2].blur_amount

(* ------------------------------------------------------------------ *)
(* C25: apply_cinematic_color_grade                                    *)
(* ------------------------------------------------------------------ *)
\* C25: for every 8-bit channel value, every pixel position (vignette
\* factor) and every named style the graded channel value lies in 0..255,
\* and a value the gains push to 255 or beyond comes out as 255: it
\* saturates and never wraps around.
C25_GradeRange ==
    (Returned("apply_cinematic_color_grade") /\ call.style \in ColorStyles) =>
        /\ ret.value.out \in 0..255
        /\ ret.value.graded[1] >= 255 * ret.value.graded[2]
              => ret.value.out = 255
        /\ ret.value.graded[1] < 255 * ret.value.graded[2]
              => ret.value.out < 255

\* The blue channel under 'cool' (gain 1.2) at the centre of the image, from
\* a value the gain pushes past full intensity.
C25_Witness ==
    /\ Returned("apply_cinematic_color_grade")
    /\ call.style = "cool"
    /\ call.channel = 0
    /\ call.vignette = 100
    /\ call.value = 250
    /\ ret.value.graded[1] > 255 * ret.value.graded[2]
    /\ ret.value.out = 255

(* ------------------------------------------------------------------ *)
(* ProjectManager.history (src/utils.py)                               *)
(* ------------------------------------------------------------------ *)
\* The entries: those of history.json, numbered from the oldest, and those
\* added since, numbered by the call that added them.
Loaded(n) == [added |-> FALSE, n |-> n]
Added(n) == [added |-> TRUE, n |-> n]

\* What history.json may hold when the ProjectManager is constructed: a
\* history saved earlier, newest first, so of at most HistoryCap entries.
LoadedLengths == {0, 25, HistoryCap - 1, HistoryCap}
LoadedHistories ==
    {[k \in 1..len |-> Loaded(len - k + 1)] : len \in LoadedLengths}

HistoryInit ==
    /\ VideoParked
    /\ HelpersIdle
    /\ RerunIdle
    /\ WaitIdle
    /\ entry = "none"
    /\ stage = "idle"
    /\ num_scenes = 0
    /\ story_data = NoStory
    /\ scene_idx = 0
    /\ generated_images = <<>>
    /\ image_files = <<>>
    /\ project_status = "none"
    /\ emitted = <<>>
    /\ video_request = NoRequest
    /\ history_calls = 0
    /\ loaded_history \in LoadedHistories
    /\ history = loaded_history

\* One call of add_to_history (lines 91-99).
AddToHistory ==
    /\ history_calls < MaxAdds
    /\ history' = add_to_history(history, Added(history_calls + 1))
    /\ history_calls' = history_calls + 1
    /\ UNCHANGED <<entry, stage, num_scenes, story_data, scene_idx,
                   generated_images, image_files, project_status, emitted,
                   video_request, loaded_history>>
    /\ UNCHANGED <<video_vars, helper_vars, rerun_vars, wait_vars>>

HistoryNext ==
    \/ AddToHistory

SpecHistory == HistoryInit /\ [][HistoryNext]_vars

\* Every entry there has been, newest first: the added ones, then the loaded.
EveryEntry ==
    [k \in 1..history_calls |-> Added(history_calls - k + 1)] \o loaded_history

\* C26: after any sequence of add_to_history calls the history holds at
\* most 50 entries, newest first, with the entry just added at index 0; the
\* entries missing once the cap is exceeded are the oldest ones.
C26_HistoryCap ==
    LET kept == IF Len(EveryEntry) > HistoryCap THEN HistoryCap
                ELSE Len(EveryEntry)
    IN /\ Len(history) <= HistoryCap
       /\ history_calls > 0 => history[1] = Added(history_calls)
       /\ history = SubSeq(EveryEntry, 1, kept)

\* More entries have been added than the history holds: loaded entries and
\* the first added ones are gone.
C26_Witness ==
    /\ loaded_history # <<>>
    /\ history_calls = HistoryCap + 1
    /\ Len(history) = HistoryCap
    /\ history[HistoryCap] = Added(2)

(* ------------------------------------------------------------------ *)
(* ComfyUIGenerator.wait_for_completion (src/image_generator_comfy.py) *)
(* ------------------------------------------------------------------ *)
\* What get_history may hand back: {} when the poll failed or the prompt is
\* not in the history yet, otherwise the prompt's entry, whose status may
\* say completed, carry an error, both or neither.
HistoryEntry(completed, error) ==
    [known |-> TRUE, completed |-> completed, error |-> error]
Responses ==
    {NoHistory} \cup {HistoryEntry(c, e) : c \in BOOLEAN, e \in BOOLEAN}

Timeouts == 0..MaxTimeout

\* time.sleep(secs) with the clock standing still.
time_sleep_frozen(clock, secs) == clock

\* time.sleep(secs): the clock reads at least secs more afterwards.
time_sleep(clock, secs) == clock + secs

WaitInit ==
    /\ VideoParked
    /\ HelpersIdle
    /\ RerunIdle
    /\ PipelineIdle
    /\ wait_pc = "start"
    /\ timeout \in Timeouts
    /\ start_time = 0
    /\ now \in {0, 1}
    /\ prompt_history = NoHistory
    /\ wait_result = NoResult

WaitRest == <<video_vars, helper_vars, rerun_vars, pipeline_vars>>

\* start_time = time.time()   (line 145)
WaitStart ==
    /\ wait_pc = "start"
    /\ start_time' = now
    /\ wait_pc' = "test"
    /\ UNCHANGED <<timeout, now, prompt_history, wait_result, WaitRest>>

\* while time.time() - start_time < timeout   (line 147), and the
\* TimeoutError after the loop (line 171).
WaitTest ==
    /\ wait_pc = "test"
    /\ IF now - start_time < timeout
       THEN /\ wait_pc' = "poll"
            /\ UNCHANGED wait_result
       ELSE /\ wait_pc' = "done"
            /\ wait_result' = Raise("TimeoutError", timeout)
    /\ UNCHANGED <<timeout, start_time, now, prompt_history, WaitRest>>

\* history = self.get_history(prompt_id)   (line 148): any response, or {}
\* for a failed poll; the request takes some time.
WaitPoll ==
    /\ wait_pc = "poll"
    /\ prompt_history' \in Responses
    /\ now' \in {now, now + 1}
    /\ wait_pc' = "check"
    /\ UNCHANGED <<timeout, start_time, wait_result, WaitRest>>

\* Lines 150-160: the completed status returns the entry, an error in the
\* status raises, anything else goes on to the sleep.
WaitCheck ==
    /\ wait_pc = "check"
    /\ IF prompt_history.known /\ prompt_history.completed
       THEN /\ wait_result' = Return(prompt_history)
            /\ wait_pc' = "done"
       ELSE IF prompt_history.known /\ prompt_history.error
       THEN /\ wait_result' = Raise("Exception", "generation error")
            /\ wait_pc' = "done"
       ELSE /\ wait_pc' = "sleep"
            /\ UNCHANGED wait_result
    /\ UNCHANGED <<timeout, start_time, now, prompt_history, WaitRest>>

\* time.sleep(1)   (line 169); the sleep may last longer than asked.
WaitSleep ==
    /\ wait_pc = "sleep"
    /\ \E late \in {0, 1} : now' = time_sleep(now, 1) + late
    /\ wait_pc' = "test"
    /\ UNCHANGED <<timeout, start_time, prompt_history, wait_result, WaitRest>>

WaitNext ==
    \/ WaitStart
    \/ WaitTest
    \/ WaitPoll
    \/ WaitCheck
    \/ WaitSleep

\* The call runs on one thread and every step of it returns (a poll gives a
\* response or fails): a step that can be taken is taken.
SpecWait == WaitInit /\ [][WaitNext]_vars /\ WF_vars(WaitNext)

\* How a finished call ended, against the last response it saw.
WaitOutcome ==
    wait_pc = "done" =>
        /\ wait_result.kind \in {"return", "raise"}
        /\ wait_result.kind = "return" =>
              /\ prompt_history.known
              /\ prompt_history.completed
              /\ wait_result.value = prompt_history
        /\ wait_result.kind = "raise" =>
              \/ /\ wait_result.exc = "Exception"
                 /\ prompt_history.known
                 /\ prompt_history.error
                 /\ ~prompt_history.completed
              \/ /\ wait_result.exc = "TimeoutError"
                 /\ now - start_time >= timeout

StatusOrder == <<"created", "story_generated", "images_generated", "completed">>
StatusRank(status) ==
    IF status = "none" THEN 0
    ELSE CHOOSE k \in 1..Len(StatusOrder) : StatusOrder[k] = status

\* The run of main.py ended with an error tuple.
FailedRun ==
    /\ entry = "ui"
    /\ stage = "ended"
    /\ emitted[Len(emitted)].kind = "error"

\* C28: in main.generate_story_animation the status of the project only
\* moves forward, one step at a time, through created, story_generated,
\* images_generated, completed; the project is added to the history only
\* after create_video has returned and the status is completed; a run that
\* fails at any stage adds nothing to the history.
C28_StatusForward ==
    /\ [][project_status' # project_status =>
             StatusRank(project_status') = StatusRank(project_status) + 1]_vars
    /\ [][history' # history =>
             /\ video_request.outcome = "return"
             /\ project_status = "completed"
             /\ project_status' = "completed"]_vars
    /\ [](history # <<>> =>
             video_request.outcome = "return" /\ project_status = "completed")
    /\ [](FailedRun => history = <<>> /\ history_calls = 0)

\* A run that went through every status and was added to the history.
C28_Witness ==
    /\ entry = "ui"
    /\ stage = "ended"
    /\ project_status = "completed"
    /\ Len(history) = 1
    /\ video_request.outcome = "return"

\* A run whose create_video call raised: the status stays images_generated.
C28_FailedWitness ==
    /\ FailedRun
    /\ video_request.outcome = "raise"
    /\ project_status = "images_generated"

\* What the consumer of the generator receives: the yielded tuples.  The
\* value of a return statement of a generator function ends the iteration
\* and is not handed to the consumer.
Delivered == SelectSeq(emitted, LAMBDA out : out.how = "yield")

\* C29: every run of main.generate_story_animation delivers its terminal
\* result to its consumer as an emitted output, the video path on success and
\* the error message on a failure: the last output the consumer receives is
\* never just an image-progress update.
C29_TerminalDelivered ==
    (entry = "ui" /\ stage = "ended") =>
        /\ Delivered # <<>>
        /\ Delivered[Len(Delivered)].kind \in {"result", "error"}
        /\ Delivered[Len(Delivered)] = emitted[Len(emitted)]

\* The run ended with a failure result: the error tuple of main.py, the None
\* of full_pipeline.py.
EndedInFailure ==
    /\ stage = "ended"
    /\ emitted # <<>>
    /\ emitted[Len(emitted)].how = "return"
    /\ emitted[Len(emitted)].kind \in {"error", "none"}

\* C30: in both pipelines create_video is never invoked when story
\* generation returned nothing or when no image at all was generated: the
\* run ends with a failure result instead; create_video is always invoked
\* with at least one image path.
C30_VideoNeedsImages ==
    /\ video_request.made =>
          /\ ~story_data.none
          /\ generated_images # <<>>
          /\ Len(video_request.image_paths) >= 1
    /\ (stage \notin {"idle", "llm"} /\ story_data.none) =>
          EndedInFailure /\ ~video_request.made
    /\ (stage \notin {"idle", "llm", "images"} /\ generated_images = <<>>) =>
          EndedInFailure /\ ~video_request.made

\* A story of several scenes none of which got its image: no video call.
C30_Witness ==
    /\ EndedInFailure
    /\ ~story_data.none
    /\ story_data.scenes = MaxScenes
    /\ generated_images = <<>>
    /\ ~video_request.made
====
